---- MODULE Spec2Model ----
(***************************************************************************)
(* Verification model of the FVENS inviscid flux schemes (Van Leer, Roe)   *)
(* and of the finite-volume residual assembly that drives them.            *)
(*                                                                         *)
(* Arithmetic.  The code computes in double precision.  The model computes *)
(* in exact extended rationals: a value is a pair <<n, d>> with d >= 0,    *)
(* in lowest terms; d > 0 is the finite rational n/d, <<1,0>> is +inf,     *)
(* <<-1,0>> is -inf and <<0,0>> is NaN, with the IEEE-754 rules for the    *)
(* operations on them (signed zeros and rounding are not modelled).  The   *)
(* inputs are restricted to those on which every square root the code      *)
(* takes is the root of a rational square, so sqrt is exact as well.       *)
(* The valid input states are a grid of densities 4^k and integer          *)
(* velocities in units of their speed of sound, paired with three unit     *)
(* normals; a few states of zero or negative density or pressure stand     *)
(* for the invalid ones.                                                   *)
(***************************************************************************)
EXTENDS Integers, Sequences, FiniteSets, TLC

(***************************************************************************)
(* Bounds of the model                                                     *)
(***************************************************************************)
\* velocity components of the input states range over -MaxV..MaxV
MaxV == 2
\* densities of the input states are 4^k for k in 0..MaxRhoExp
MaxRhoExp == 1

(***************************************************************************)
(* Double arithmetic as exact extended rationals                           *)
(***************************************************************************)
AbsInt(i) == IF i < 0 THEN -i ELSE i

SgnInt(i) == IF i < 0 THEN -1 ELSE IF i > 0 THEN 1 ELSE 0

RECURSIVE Gcd(_, _)
Gcd(a, b) == IF b = 0 THEN a ELSE Gcd(b, a % b)

Reduce(n, d, k) == <<n \div k, d \div k>>

\* the value n/d in normal form
Rat(n, d) ==
  IF d = 0 THEN <<SgnInt(n), 0>>
  ELSE Reduce(SgnInt(d) * n, AbsInt(d), Gcd(AbsInt(n), AbsInt(d)))

NaN == <<0, 0>>
Zero == <<0, 1>>
One == <<1, 1>>
Two == <<2, 1>>
Four == <<4, 1>>
Half == <<1, 2>>

IsNaN(x) == x = NaN
IsFinite(x) == x[2] > 0

\* the sum of two finite values, k the gcd of their denominators
AddFinite(x, y, k) ==
  Rat(x[1] * (y[2] \div k) + y[1] * (x[2] \div k), (x[2] \div k) * y[2])

Add(x, y) ==
  IF x[2] = 0 \/ y[2] = 0
  THEN IF IsNaN(x) \/ IsNaN(y) THEN NaN
       ELSE IF x[2] = 0 /\ y[2] = 0 THEN (IF x = y THEN x ELSE NaN)
       ELSE IF x[2] = 0 THEN x ELSE y
  ELSE AddFinite(x, y, Gcd(x[2], y[2]))

Neg(x) == <<-x[1], x[2]>>

Sub(x, y) == Add(x, Neg(y))

\* the product of two finite values, the common factors k1 of x's numerator
\* and y's denominator and k2 of y's numerator and x's denominator cancelled
MulFinite(x, y, k1, k2) ==
  <<(x[1] \div k1) * (y[1] \div k2), (x[2] \div k2) * (y[2] \div k1)>>

Mul(x, y) ==
  IF x[2] = 0 \/ y[2] = 0 THEN Rat(x[1] * y[1], 0)
  ELSE MulFinite(x, y, Gcd(AbsInt(x[1]), y[2]), Gcd(AbsInt(y[1]), x[2]))

\* 1/y, 1/0 being +inf
Recip(y) == IF y[1] < 0 THEN <<-y[2], -y[1]>> ELSE <<y[2], y[1]>>

Div(x, y) == Mul(x, Recip(y))

\* the comparison x < y of doubles: false when either side is NaN
Lt(x, y) ==
  IF IsNaN(x) \/ IsNaN(y) THEN FALSE
  ELSE IF x[2] = 0 \/ y[2] = 0
       THEN x # y /\ (x = <<-1, 0>> \/ y = <<1, 0>>)
       ELSE x[1] * y[2] < y[1] * x[2]

Fabs(x) == <<AbsInt(x[1]), x[2]>>

IsSquare(k) == \E r \in 0..k : r * r = k

ISqrt(k) == CHOOSE r \in 0..k : r * r = k

\* sqrt of a double: NaN below zero, exact on the squares of rationals
Sqrt(x) ==
  IF IsNaN(x) \/ x[1] < 0 THEN NaN
  ELSE IF x[2] = 0 THEN x
  ELSE <<ISqrt(x[1]), ISqrt(x[2])>>

\* pow(x, 2)
Pow2(x) == Mul(x, x)

\* a vector of NVARS = 4 doubles, indexed 0..3 as in the code
Vec4(a, b, c, d) ==
  [i \in 0..3 |-> IF i = 0 THEN a ELSE IF i = 1 THEN b ELSE IF i = 2 THEN c ELSE d]

\* a vector of NDIM = 2 doubles
Vec2(a, b) == [i \in 0..1 |-> IF i = 0 THEN a ELSE b]

\* Matrix::zeros()
Zeros == Vec4(Zero, Zero, Zero, Zero)

\* the adiabatic index handed to the flux constructor (1.4)
Gamma == <<7, 5>>

MinusOne == Neg(One)

(***************************************************************************)
(* VanLeerFlux::get_flux                                                   *)
(***************************************************************************)
\* pressure from a conserved state, as VanLeerFlux computes it
VL_p(u) ==
  Mul(Sub(Gamma, One),
      Sub(u[3], Div(Mul(Half, Add(Pow2(u[1]), Pow2(u[2]))), u[0])))

\* speed of sound
VL_c(u) == Sqrt(Div(Mul(Gamma, VL_p(u)), u[0]))

\* normal velocity
VL_vn(u, nrm) == Div(Add(Mul(u[1], nrm[0]), Mul(u[2], nrm[1])), u[0])

\* normal Mach number
VL_Mn(u, nrm) == Div(VL_vn(u, nrm), VL_c(u))

\* fiplus after the branch Mni > 1: the full flux of the left state
VL_fiplus_full(old, u, nrm, pi, vni) ==
  [old EXCEPT ![0] = Mul(u[0], vni),
              ![1] = Add(Mul(vni, u[1]), Mul(pi, nrm[0])),
              ![2] = Add(Mul(vni, u[2]), Mul(pi, nrm[1])),
              ![3] = Mul(vni, Add(u[3], pi))]

\* a slip in the split mass flux: (Mni+1)^2/2 for (Mni+1)^2/4
VL_fiplus_sub_halved(old, u, nrm, ci, vni, Mni) ==
  LET vmags == Add(Pow2(Div(u[1], u[0])), Pow2(Div(u[2], u[0])))
      f0 == Div(Mul(Mul(u[0], ci), Pow2(Add(Mni, One))), Two)
  IN  [old EXCEPT
         ![0] = f0,
         ![1] = Mul(f0, Add(Div(u[1], u[0]),
                            Div(Mul(nrm[0], Sub(Mul(Two, ci), vni)), Gamma))),
         ![2] = Mul(f0, Add(Div(u[2], u[0]),
                            Div(Mul(nrm[1], Sub(Mul(Two, ci), vni)), Gamma))),
         ![3] = Mul(f0, Add(Div(Sub(vmags, Mul(vni, vni)), Two),
                            Div(Pow2(Add(Mul(Sub(Gamma, One), vni), Mul(Two, ci))),
                                Mul(Two, Sub(Mul(Gamma, Gamma), One)))))]

\* fiplus after the branch -1 <= Mni <= 1: the split flux polynomial
VL_fiplus_sub(old, u, nrm, ci, vni, Mni) ==
  LET vmags == Add(Pow2(Div(u[1], u[0])), Pow2(Div(u[2], u[0])))
      f0 == Div(Mul(Mul(u[0], ci), Pow2(Add(Mni, One))), Four)
  IN  [old EXCEPT
         ![0] = f0,
         ![1] = Mul(f0, Add(Div(u[1], u[0]),
                            Div(Mul(nrm[0], Sub(Mul(Two, ci), vni)), Gamma))),
         ![2] = Mul(f0, Add(Div(u[2], u[0]),
                            Div(Mul(nrm[1], Sub(Mul(Two, ci), vni)), Gamma))),
         ![3] = Mul(f0, Add(Div(Sub(vmags, Mul(vni, vni)), Two),
                            Div(Pow2(Add(Mul(Sub(Gamma, One), vni), Mul(Two, ci))),
                                Mul(Two, Sub(Mul(Gamma, Gamma), One)))))]

\* the first if-chain, on the locals pi, ci, vni, Mni
VL_fiplus_chain(old, u, nrm, pi, ci, vni, Mni) ==
  IF Lt(Mni, MinusOne) THEN [i \in DOMAIN old |-> Zero]
  ELSE IF Lt(One, Mni) THEN VL_fiplus_full(old, u, nrm, pi, vni)
  ELSE VL_fiplus_sub(old, u, nrm, ci, vni, Mni)

\* the member buffer fiplus after the first if-chain, from its old contents
VL_fiplus(old, u, nrm) ==
  VL_fiplus_chain(old, u, nrm, VL_p(u), VL_c(u), VL_vn(u, nrm), VL_Mn(u, nrm))

\* fjminus after the branch Mnj < -1: the full flux of the right state
VL_fjminus_full(old, u, nrm, pj, vnj) ==
  [old EXCEPT ![0] = Mul(u[0], vnj),
              ![1] = Add(Mul(vnj, u[1]), Mul(pj, nrm[0])),
              ![2] = Add(Mul(vnj, u[2]), Mul(pj, nrm[1])),
              ![3] = Mul(vnj, Add(u[3], pj))]

\* fjminus after the branch -1 <= Mnj <= 1: the split flux polynomial
VL_fjminus_sub(old, u, nrm, cj, vnj, Mnj) ==
  LET vmags == Add(Pow2(Div(u[1], u[0])), Pow2(Div(u[2], u[0])))
      f0 == Div(Mul(Mul(Neg(u[0]), cj), Pow2(Sub(Mnj, One))), Four)
  IN  [old EXCEPT
         ![0] = f0,
         ![1] = Mul(f0, Add(Div(u[1], u[0]),
                            Div(Mul(nrm[0], Sub(Mul(Neg(Two), cj), vnj)), Gamma))),
         ![2] = Mul(f0, Add(Div(u[2], u[0]),
                            Div(Mul(nrm[1], Sub(Mul(Neg(Two), cj), vnj)), Gamma))),
         ![3] = Mul(f0, Add(Div(Sub(vmags, Mul(vnj, vnj)), Two),
                            Div(Pow2(Sub(Mul(Sub(Gamma, One), vnj), Mul(Two, cj))),
                                Mul(Two, Sub(Mul(Gamma, Gamma), One)))))]

\* the second if-chain, on the locals pj, cj, vnj, Mnj
VL_fjminus_chain(old, u, nrm, pj, cj, vnj, Mnj) ==
  IF Lt(One, Mnj) THEN [i \in DOMAIN old |-> Zero]
  ELSE IF Lt(Mnj, MinusOne) THEN VL_fjminus_full(old, u, nrm, pj, vnj)
  ELSE VL_fjminus_sub(old, u, nrm, cj, vnj, Mnj)

\* the member buffer fjminus after the second if-chain, from its old contents
VL_fjminus(old, u, nrm) ==
  VL_fjminus_chain(old, u, nrm, VL_p(u), VL_c(u), VL_vn(u, nrm), VL_Mn(u, nrm))

\* the flux vector written by the final loop
VL_flux(fp, fm) == [i \in 0..3 |-> Add(fp[i], fm[i])]

(***************************************************************************)
(* RoeFlux::get_flux                                                       *)
(***************************************************************************)
\* a slip in the epsilon: the second if is missing
Roe_eps_left_only(lk, sl, sr) ==
  IF Lt(Zero, Sub(lk, sl)) THEN Sub(lk, sl) ELSE Zero

\* epsilon of one eigenvalue group: eps = 0, then raised by the two ifs
Roe_eps(lk, sl, sr) ==
  LET e1 == IF Lt(Zero, Sub(lk, sl)) THEN Sub(lk, sl) ELSE Zero
  IN  IF Lt(e1, Sub(sr, lk)) THEN Sub(sr, lk) ELSE e1

\* a slip in the fix: the comparison is reversed, so the large eigenvalues
\* are replaced and the small ones are left
Roe_fix_reversed(lk, eps) == IF Lt(eps, Fabs(lk)) THEN eps ELSE lk

\* if(fabs(l[k]) < eps) l[k] = eps
Roe_fix(lk, eps) == IF Lt(Fabs(lk), eps) THEN eps ELSE lk

\* the per-side locals of RoeFlux::get_flux
Roe_side(u, nrm) ==
  LET vx == Div(u[1], u[0])
      vy == Div(u[2], u[0])
      vn == Add(Mul(vx, nrm[0]), Mul(vy, nrm[1]))
      vmag2 == Add(Mul(vx, vx), Mul(vy, vy))
      p == Mul(Sub(Gamma, One), Sub(u[3], Mul(Mul(Half, u[0]), vmag2)))
      c == Sqrt(Div(Mul(Gamma, p), u[0]))
      H == Div(Add(u[3], p), u[0])
  IN  [vx |-> vx, vy |-> vy, vn |-> vn, vmag2 |-> vmag2, p |-> p, c |-> c, H |-> H]

\* the Roe averages that precede cij, on the per-side locals i and j and Rij;
\* cij2 is the argument of the square root that gives cij
Roe_avg_R(ul, nrm, i, j, Rij) ==
  LET vxij == Div(Add(Mul(Rij, j.vx), i.vx), Add(Rij, One))
      vyij == Div(Add(Mul(Rij, j.vy), i.vy), Add(Rij, One))
      Hij == Div(Add(Mul(Rij, j.H), i.H), Add(Rij, One))
      vm2ij == Add(Mul(vxij, vxij), Mul(vyij, vyij))
  IN  [Rij |-> Rij, rhoij |-> Mul(Rij, ul[0]), vxij |-> vxij, vyij |-> vyij,
       Hij |-> Hij, vm2ij |-> vm2ij,
       vnij |-> Add(Mul(vxij, nrm[0]), Mul(vyij, nrm[1])),
       cij2 |-> Mul(Sub(Gamma, One), Sub(Hij, Mul(vm2ij, Half)))]

\* the Roe averages with cij
Roe_avg_c(b) ==
  [Rij |-> b.Rij, rhoij |-> b.rhoij, vxij |-> b.vxij, vyij |-> b.vyij,
   Hij |-> b.Hij, vm2ij |-> b.vm2ij, vnij |-> b.vnij, cij |-> Sqrt(b.cij2)]

\* the Roe averages, on the per-side locals i and j
Roe_avg(ul, ur, nrm, i, j) ==
  Roe_avg_c(Roe_avg_R(ul, nrm, i, j, Sqrt(Div(ur[0], ul[0]))))

\* the eigenvalues as first assigned
Roe_l0(a) == Vec4(a.vnij, a.vnij, Add(a.vnij, a.cij), Sub(a.vnij, a.cij))

\* the three epsilons of the Harten-Hyman fix, in the order computed
Roe_epsilons(i, j, l0) ==
  <<Roe_eps(l0[0], i.vn, j.vn),
    Roe_eps(l0[2], Add(i.vn, i.c), Add(j.vn, j.c)),
    Roe_eps(l0[3], Sub(i.vn, i.c), Sub(j.vn, j.c))>>

\* the eigenvalues after the Harten-Hyman fix
Roe_l(l0, e) ==
  Vec4(Roe_fix(l0[0], e[1]), Roe_fix(l0[1], e[1]),
       Roe_fix(l0[2], e[2]), Roe_fix(l0[3], e[3]))

\* the right eigenvectors r(ivar, k), columns 2 and 3 scaled by s
Roe_r_scaled(a, nrm, s) ==
  Vec4(Vec4(One, Zero, s, s),
       Vec4(a.vxij, Mul(a.cij, nrm[1]),
            Mul(Add(a.vxij, Mul(a.cij, nrm[0])), s),
            Mul(Sub(a.vxij, Mul(a.cij, nrm[0])), s)),
       Vec4(a.vyij, Mul(Neg(a.cij), nrm[0]),
            Mul(Add(a.vyij, Mul(a.cij, nrm[1])), s),
            Mul(Sub(a.vyij, Mul(a.cij, nrm[1])), s)),
       Vec4(Mul(a.vm2ij, Half),
            Mul(a.cij, Sub(Mul(a.vxij, nrm[1]), Mul(a.vyij, nrm[0]))),
            Mul(Add(a.Hij, Mul(a.cij, a.vnij)), s),
            Mul(Sub(a.Hij, Mul(a.cij, a.vnij)), s)))

\* the right eigenvectors after the scaling loop, s = rhoij/(2 cij)
Roe_r(a, nrm) == Roe_r_scaled(a, nrm, Div(a.rhoij, Mul(Two, a.cij)))

\* the characteristic jumps dw
Roe_dw(ul, ur, nrm, i, j, a) ==
  Vec4(Sub(Sub(ur[0], ul[0]), Div(Sub(j.p, i.p), Mul(a.cij, a.cij))),
       Sub(Mul(Sub(j.vx, i.vx), nrm[1]), Mul(Sub(j.vy, i.vy), nrm[0])),
       Add(Sub(j.vn, i.vn), Div(Sub(j.p, i.p), Mul(a.rhoij, a.cij))),
       Add(Neg(Sub(j.vn, i.vn)), Div(Sub(j.p, i.p), Mul(a.rhoij, a.cij))))

\* the local array fi: fi[0] and fi[1] are assigned, fi[2] and fi[3] never
\* are (the two statements meant for them assign fj[2] and fj[3]), so they
\* hold whatever the stack held: g2, g3
Roe_fi(ul, nrm, i, g2, g3) ==
  Vec4(Mul(ul[0], i.vn),
       Add(Mul(Mul(ul[0], i.vn), i.vx), Mul(i.p, nrm[0])),
       g2,
       g3)

\* the local array fj: fj[2] and fj[3] are assigned twice, the right state's
\* values last
Roe_fj(ur, nrm, j) ==
  Vec4(Mul(ur[0], j.vn),
       Add(Mul(Mul(ur[0], j.vn), j.vx), Mul(j.p, nrm[0])),
       Add(Mul(Mul(ur[0], j.vn), j.vy), Mul(j.p, nrm[1])),
       Mul(j.vn, Add(ur[3], j.p)))

\* one term fabs(l[j])*dw(j)*r(ivar, j) of the final loop
Roe_term(lv, dw, r, ivar, j) == Mul(Mul(Fabs(lv[j]), dw[j]), r[ivar][j])

\* sum over j of fabs(l[j])*dw(j)*r(ivar, j), accumulated from 0 in order
Roe_sum(lv, dw, r, ivar) ==
  Add(Add(Add(Add(Zero, Roe_term(lv, dw, r, ivar, 0)),
                  Roe_term(lv, dw, r, ivar, 1)),
              Roe_term(lv, dw, r, ivar, 2)),
          Roe_term(lv, dw, r, ivar, 3))

\* the four sums of the final loop
Roe_sums(lv, dw, r) == [ivar \in 0..3 |-> Roe_sum(lv, dw, r, ivar)]

\* the flux vector written by the final loop
Roe_flux(fi, fj, sums) ==
  [ivar \in 0..3 |-> Mul(Half, Sub(Add(fi[ivar], fj[ivar]), sums[ivar]))]

\* the locals of one call, gathered when the final loop has run
Roe_locals_sum(i, j, a, l0, e, lv, dw, r, fj) ==
  [i |-> i, j |-> j, a |-> a, l0 |-> l0, eps |-> e, l |-> lv, dw |-> dw,
   r |-> r, fj |-> fj, sums |-> Roe_sums(lv, dw, r)]

\* the locals of one call once the eigenvalues l0 and the epsilons are known
Roe_locals_fix(ul, ur, nrm, i, j, a, l0, e) ==
  Roe_locals_sum(i, j, a, l0, e, Roe_l(l0, e), Roe_dw(ul, ur, nrm, i, j, a),
                 Roe_r(a, nrm), Roe_fj(ur, nrm, j))

\* the locals of one call once the Roe averages a are known
Roe_locals_avg(ul, ur, nrm, i, j, a) ==
  Roe_locals_fix(ul, ur, nrm, i, j, a, Roe_l0(a), Roe_epsilons(i, j, Roe_l0(a)))

\* the locals of one call once the per-side locals i and j are known
Roe_locals_sides(ul, ur, nrm, i, j) ==
  Roe_locals_avg(ul, ur, nrm, i, j, Roe_avg(ul, ur, nrm, i, j))

\* the locals of RoeFlux::get_flux(ul, ur, n)
Roe_locals(ul, ur, nrm) ==
  Roe_locals_sides(ul, ur, nrm, Roe_side(ul, nrm), Roe_side(ur, nrm))

(***************************************************************************)
(* Inputs of get_flux                                                      *)
(***************************************************************************)
\* the conserved state of density rho, velocity (vx, vy), speed of sound c
Cons(rho, vx, vy, c) ==
  LET p == Div(Rat(rho * c * c, 1), Gamma)
  IN  Vec4(Rat(rho, 1), Rat(rho * vx, 1), Rat(rho * vy, 1),
           Add(Div(p, Sub(Gamma, One)), Rat(rho * (vx * vx + vy * vy), 2)))

\* the invariant of ConservedState: density > 0 and derived pressure > 0
Valid(u) == Lt(Zero, u[0]) /\ Lt(Zero, VL_p(u))

ValidStates ==
  {Cons(4^k, vx, vy, 1) :
     k \in 0..MaxRhoExp, vx \in -MaxV..MaxV, vy \in -MaxV..MaxV}

\* states that break the invariant: zero or negative density, zero or
\* negative pressure
InvalidStates ==
  {u \in {Vec4(Rat(rho, 1), Rat(mx, 1), Zero, Rat(e, 2)) :
            rho \in -1..1, mx \in {0, 2}, e \in {0, 1}} : ~Valid(u)}

\* the valid states that the invalid ones are paired with
PartnerStates == {Cons(1, vx, 0, 1) : vx \in {-2, 0, 2}}

\* unit normals
Normals == {Vec2(One, Zero), Vec2(Zero, One), Vec2(Rat(3, 5), Rat(4, 5))}

\* x is NaN, negative, infinite or the square of a rational
RootExact(x) == ~IsFinite(x) \/ x[1] < 0 \/ (IsSquare(x[1]) /\ IsSquare(x[2]))

\* the square roots of the Roe averages of per-side locals i and j are exact
AvgRootExact(a, b, i, j) ==
  /\ RootExact(Div(b[0], a[0]))
  /\ RootExact(Roe_avg_R(a, Vec2(One, Zero), i, j, Sqrt(Div(b[0], a[0]))).cij2)

\* every square root that get_flux takes of (a, b) is exact
SqrtExact(a, b) ==
  /\ RootExact(Div(Mul(Gamma, VL_p(a)), a[0]))
  /\ RootExact(Div(Mul(Gamma, VL_p(b)), b[0]))
  /\ AvgRootExact(a, b, Roe_side(a, Vec2(One, Zero)), Roe_side(b, Vec2(One, Zero)))

StatePairs ==
  {x \in (ValidStates \X ValidStates)
           \cup (PartnerStates \X InvalidStates)
           \cup (InvalidStates \X PartnerStates)
           \cup (InvalidStates \X InvalidStates) : SqrtExact(x[1], x[2])}

\* the arguments (ul, ur, n) of the calls the model makes
Inputs == StatePairs \X Normals

\* what uninitialised memory may hold
Garbage == {Zero, One}

(***************************************************************************)
(* State                                                                   *)
(***************************************************************************)
VARIABLES
  scheme,    \* the class of the flux object: "VanLeer" or "Roe"
  fiplus,    \* VanLeerFlux::fiplus
  fjminus,   \* VanLeerFlux::fjminus
  ul, ur, n, \* the arguments of the last call of get_flux
  flux,      \* the caller's flux vector
  l,         \* the eigenvalues of the last Roe call when it returned
  outcome,   \* "none", "pending" (a call is about to be made) or "returned"
  first,     \* the arguments and the flux of the first call made on the object
  bc,        \* one call of compute_boundary_state: marker, normal, ins, bs, status
  marker,    \* the boundary marker of each boundary face of the mesh
  u,         \* EulerFV::u, the conserved variables of each cell
  ug,        \* EulerFV::ug, the ghost state of each boundary face
  residual,  \* EulerFV::residual, one 4-vector per cell
  integ,     \* EulerFV::integ, the wave-speed sum of each cell
  pending,   \* the faces the running sweep has still to visit
  status,    \* "stale", "sweeping", "done" or "ConfigurationError"
  contrib,   \* the area-scaled flux of each face in the running sweep
  prev       \* the result of the sweep before, when it ran on the same states

fluxvars == <<scheme, fiplus, fjminus, ul, ur, n, flux, l, outcome>>

fvvars == <<marker, u, ug, residual, integ, pending, status, contrib, prev>>

vars == <<fluxvars, first, bc, fvvars>>

None == <<>>

\* the engine is not part of the run
NoEngine ==
  /\ marker = None /\ u = None /\ ug = None /\ residual = None /\ integ = None
  /\ pending = {} /\ status = "none" /\ contrib = None /\ prev = None

\* a flux object after its constructor
Constructed ==
  /\ scheme \in {"VanLeer", "Roe"}
  /\ IF scheme = "VanLeer"
     THEN \E g1, g2 \in Garbage :
            /\ fiplus = Vec4(g1, g1, g1, g1)
            /\ fjminus = Vec4(g2, g2, g2, g2)
     ELSE fiplus = None /\ fjminus = None
  /\ flux = Zeros
  /\ l = Zeros

\* VanLeerFlux::get_flux(ul, ur, n, flux)
VanLeerFlux_get_flux(a_ul, a_ur, a_n) ==
  /\ scheme = "VanLeer"
  /\ fiplus' = VL_fiplus(fiplus, a_ul, a_n)
  /\ fjminus' = VL_fjminus(fjminus, a_ur, a_n)
  /\ flux' = VL_flux(fiplus', fjminus')
  /\ ul' = a_ul /\ ur' = a_ur /\ n' = a_n
  /\ outcome' = "returned"
  /\ UNCHANGED <<scheme, l>>

\* the writes of RoeFlux::get_flux, loc its locals
RoeFlux_write(a_ul, a_ur, a_n, loc) ==
  /\ \E g2, g3 \in Garbage :
       flux' = Roe_flux(Roe_fi(a_ul, a_n, loc.i, g2, g3), loc.fj, loc.sums)
  /\ l' = loc.l
  /\ ul' = a_ul /\ ur' = a_ur /\ n' = a_n
  /\ outcome' = "returned"
  /\ UNCHANGED <<scheme, fiplus, fjminus>>

\* RoeFlux::get_flux(ul, ur, n, flux)
RoeFlux_get_flux(a_ul, a_ur, a_n) ==
  /\ scheme = "Roe"
  /\ RoeFlux_write(a_ul, a_ur, a_n, Roe_locals(a_ul, a_ur, a_n))

(***************************************************************************)
(* Spec: one call of get_flux on each input                                *)
(***************************************************************************)
Init ==
  /\ Constructed
  /\ \E x \in Inputs : ul = x[1][1] /\ ur = x[1][2] /\ n = x[2]
  /\ outcome = "pending"
  /\ first = None
  /\ bc = None
  /\ NoEngine

\* the pending call is made
CallVanLeer ==
  /\ outcome = "pending"
  /\ VanLeerFlux_get_flux(ul, ur, n)
  /\ UNCHANGED <<first, bc, fvvars>>

CallRoe ==
  /\ outcome = "pending"
  /\ RoeFlux_get_flux(ul, ur, n)
  /\ UNCHANGED <<first, bc, fvvars>>

Next == CallVanLeer \/ CallRoe

Spec == Init /\ [][Next]_vars

(***************************************************************************)
(* SpecPure: any sequence of calls of get_flux on one flux object          *)
(***************************************************************************)
\* the arguments of the calls: the partner states, left and right
PureInputs ==
  {x \in PartnerStates \X PartnerStates : SqrtExact(x[1], x[2])} \X Normals

InitPure ==
  /\ Constructed
  /\ ul = Zeros /\ ur = Zeros /\ n = Vec2(One, Zero)
  /\ outcome = "none"
  /\ first = None
  /\ bc = None
  /\ NoEngine

\* the first call is remembered with the flux it wrote
Remember ==
  /\ first' = IF first = None THEN [ul |-> ul', ur |-> ur', n |-> n', flux |-> flux']
              ELSE first
  /\ UNCHANGED <<bc, fvvars>>

SeqCallVanLeer ==
  \E x \in PureInputs : VanLeerFlux_get_flux(x[1][1], x[1][2], x[2]) /\ Remember

SeqCallRoe ==
  \E x \in PureInputs : RoeFlux_get_flux(x[1][1], x[1][2], x[2]) /\ Remember

NextPure == SeqCallVanLeer \/ SeqCallRoe

SpecPure == InitPure /\ [][NextPure]_vars

(***************************************************************************)
(* EulerFV::compute_boundary_state                                         *)
(***************************************************************************)
\* EulerFV::solid_wall_id and EulerFV::inflow_outflow_id as configured
solid_wall_id == 2

inflow_outflow_id == 4

\* the markers a boundary face may carry; 7 is neither of the two
Markers == {solid_wall_id, inflow_outflow_id, 7}

\* EulerFV::uinf, the free-stream state
uinf == Cons(1, 5, 0, 2)

\* a slip in the reflection: the normal velocity is subtracted once only
ReflectOnce(nrm, ins) ==
  LET vn == Div(Add(Mul(ins[1], nrm[0]), Mul(ins[2], nrm[1])), ins[0])
  IN  Vec4(ins[0],
           Sub(ins[1], Mul(Mul(vn, nrm[0]), ins[0])),
           Sub(ins[2], Mul(Mul(vn, nrm[1]), ins[0])),
           ins[3])

\* the normal velocity of ins is subtracted twice; density and energy stay
Reflect(nrm, ins) ==
  LET vn == Div(Add(Mul(ins[1], nrm[0]), Mul(ins[2], nrm[1])), ins[0])
  IN  Vec4(ins[0],
           Sub(ins[1], Mul(Mul(Mul(Two, vn), nrm[0]), ins[0])),
           Sub(ins[2], Mul(Mul(Mul(Two, vn), nrm[1]), ins[0])),
           ins[3])

\* the ghost state across a boundary face of marker mk and normal nrm, from
\* the interior state ins
compute_boundary_state(mk, nrm, ins) ==
  IF mk = solid_wall_id THEN [status |-> "ok", bs |-> Reflect(nrm, ins)]
  ELSE IF mk = inflow_outflow_id THEN [status |-> "ok", bs |-> uinf]
  ELSE [status |-> "ConfigurationError", bs |-> None]

(***************************************************************************)
(* SpecBC: one call of compute_boundary_state on each input                *)
(***************************************************************************)
InitBC ==
  /\ \E mk \in Markers, nrm \in Normals, ins \in ValidStates :
       bc = [marker |-> mk, nrm |-> nrm, ins |-> ins, status |-> "pending", bs |-> None]
  /\ scheme = "none" /\ fiplus = None /\ fjminus = None
  /\ ul = Zeros /\ ur = Zeros /\ n = Vec2(One, Zero)
  /\ flux = Zeros /\ l = Zeros /\ outcome = "none" /\ first = None
  /\ NoEngine

ResolveBoundary ==
  /\ bc.status = "pending"
  /\ LET r == compute_boundary_state(bc.marker, bc.nrm, bc.ins)
     IN  bc' = [bc EXCEPT !.status = r.status, !.bs = r.bs]
  /\ UNCHANGED <<fluxvars, first, fvvars>>

NextBC == ResolveBoundary

SpecBC == InitBC /\ [][NextBC]_vars

(***************************************************************************)
(* EulerFV::compute_residual on a mesh of two cells                        *)
(***************************************************************************)
\* the mesh: cells 0 and 1; face 0 is the boundary face of cell 0, face 1
\* the interior face from cell 0 to cell 1
Cells == {0, 1}

BFaces == {0}

IFaces == {1}

Faces == BFaces \cup IFaces

Owner(f) == 0

Neighbor(f) == 1

Normal(f) ==
  IF f = 0 THEN Vec2(MinusOne, Zero) ELSE Vec2(One, Zero)

Area(f) == IF f = 1 THEN Two ELSE One

\* the states the cells take
FVStates == {Cons(1, 5, 0, 2), Cons(4, 5, 0, 2)}

VAdd(a, b) == [i \in 0..3 |-> Add(a[i], b[i])]

VSub(a, b) == [i \in 0..3 |-> Sub(a[i], b[i])]

VScale(k, a) == [i \in 0..3 |-> Mul(k, a[i])]

\* the right state of face f: the neighbour's state or the ghost state
RightState(mk, uu, f) ==
  IF f \in IFaces THEN [status |-> "ok", bs |-> uu[Neighbor(f)]]
  ELSE compute_boundary_state(mk[f], Normal(f), uu[Owner(f)])

\* the cell states on which every square root of the sweep is exact
ExactOnMesh(mk, uu) ==
  \A f \in Faces :
    LET r == RightState(mk, uu, f)
    IN  r.status = "ok" => SqrtExact(uu[Owner(f)], r.bs)

\* (|vn| + c) * area of face f, vn and c the averages of the two sides
WaveSpeed(f, left, right) ==
  LET vn == Mul(Half, Add(VL_vn(left, Normal(f)), VL_vn(right, Normal(f))))
      c == Mul(Half, Add(VL_c(left), VL_c(right)))
  IN  Mul(Add(Fabs(vn), c), Area(f))

\* a slip in the accumulation: the flux is added to the neighbour as well
AccumulateBothAdded(res, f, c) ==
  IF f \in IFaces
  THEN [res EXCEPT ![Owner(f)] = VAdd(@, c), ![Neighbor(f)] = VAdd(res[Neighbor(f)], c)]
  ELSE [res EXCEPT ![Owner(f)] = VAdd(@, c)]

\* the residual after face f has contributed its area-scaled flux c: added
\* to the owner and, on an interior face, subtracted from the neighbour
Accumulate(res, f, c) ==
  IF f \in IFaces
  THEN [res EXCEPT ![Owner(f)] = VAdd(@, c), ![Neighbor(f)] = VSub(res[Neighbor(f)], c)]
  ELSE [res EXCEPT ![Owner(f)] = VAdd(@, c)]

AccumulateInteg(ig, f, w) ==
  IF f \in IFaces
  THEN [ig EXCEPT ![Owner(f)] = Add(@, w), ![Neighbor(f)] = Add(ig[Neighbor(f)], w)]
  ELSE [ig EXCEPT ![Owner(f)] = Add(@, w)]

ZeroResidual == [c \in Cells |-> Zeros]

ZeroInteg == [c \in Cells |-> Zero]

ZeroContrib == [f \in Faces |-> Zeros]

\* an engine after its constructor and loaddata, on a mesh whose boundary
\* faces carry any markers
InitFV ==
  /\ Constructed
  /\ ul = Zeros /\ ur = Zeros /\ n = Vec2(One, Zero)
  /\ outcome = "none"
  /\ first = None
  /\ bc = None
  /\ marker \in [BFaces -> Markers]
  /\ u \in [Cells -> FVStates]
  /\ ExactOnMesh(marker, u)
  /\ ug = [f \in BFaces |-> Zeros]
  /\ residual = ZeroResidual
  /\ integ = ZeroInteg
  /\ pending = {}
  /\ status = "stale"
  /\ contrib = ZeroContrib
  /\ prev = None

\* the driver writes new states through unknowns()
SetStates ==
  /\ status \in {"stale", "done"}
  /\ \E uu \in [Cells -> FVStates] :
       /\ uu # u
       /\ ExactOnMesh(marker, uu)
       /\ u' = uu
  /\ status' = "stale"
  /\ UNCHANGED <<fluxvars, first, bc, marker, ug, residual, integ, pending, contrib, prev>>

\* compute_residual is entered: the residual and integ are zeroed
StartSweep ==
  /\ status \in {"stale", "done"}
  /\ prev' = IF status = "done" THEN [residual |-> residual, integ |-> integ] ELSE None
  /\ residual' = ZeroResidual
  /\ integ' = ZeroInteg
  /\ contrib' = ZeroContrib
  /\ pending' = Faces
  /\ status' = "sweeping"
  /\ UNCHANGED <<fluxvars, first, bc, marker, u, ug>>

\* the flux of the configured scheme
get_flux(a_ul, a_ur, a_n) ==
  VanLeerFlux_get_flux(a_ul, a_ur, a_n) \/ RoeFlux_get_flux(a_ul, a_ur, a_n)

\* face f is visited: its flux is computed and accumulated
Contribute(f, left, right) ==
  /\ get_flux(left, right, Normal(f))
  /\ contrib' = [contrib EXCEPT ![f] = VScale(Area(f), flux')]
  /\ residual' = Accumulate(residual, f, contrib'[f])
  /\ integ' = AccumulateInteg(integ, f, WaveSpeed(f, left, right))
  /\ pending' = pending \ {f}
  /\ status' = IF pending' = {} THEN "done" ELSE "sweeping"

VisitInteriorFace ==
  /\ status = "sweeping"
  /\ \E f \in pending \cap IFaces : Contribute(f, u[Owner(f)], u[Neighbor(f)])
  /\ UNCHANGED <<first, bc, marker, u, ug, prev>>

VisitBoundaryFace ==
  /\ status = "sweeping"
  /\ \E f \in pending \cap BFaces :
       LET r == compute_boundary_state(marker[f], Normal(f), u[Owner(f)])
       IN  /\ r.status = "ok"
           /\ ug' = [ug EXCEPT ![f] = r.bs]
           /\ Contribute(f, u[Owner(f)], r.bs)
  /\ UNCHANGED <<first, bc, marker, u, prev>>

\* a boundary face of unknown marker ends the sweep, the buffers zeroed
FailOnMarker ==
  /\ status = "sweeping"
  /\ \E f \in pending \cap BFaces :
       compute_boundary_state(marker[f], Normal(f), u[Owner(f)]).status
         = "ConfigurationError"
  /\ residual' = ZeroResidual
  /\ integ' = ZeroInteg
  /\ contrib' = ZeroContrib
  /\ pending' = {}
  /\ status' = "ConfigurationError"
  /\ UNCHANGED <<fluxvars, first, bc, marker, u, ug, prev>>

NextFV == SetStates \/ StartSweep \/ VisitInteriorFace \/ VisitBoundaryFace \/ FailOnMarker

SpecFV == InitFV /\ [][NextFV]_vars

(***************************************************************************)
(* The quantities the properties are stated in                             *)
(***************************************************************************)
\* x <= y of doubles
Le(x, y) == Lt(x, y) \/ (x = y /\ ~IsNaN(x))

MaxOf(x, y) == IF Lt(x, y) THEN y ELSE x

\* the physical Euler flux of state q projected on the normal nrm:
\* (rho vn, rho vn vx + p nx, rho vn vy + p ny, vn (E + p))
PhysFlux(q, nrm) ==
  LET rho == q[0]
      vx == Div(q[1], q[0])
      vy == Div(q[2], q[0])
      vn == Add(Mul(vx, nrm[0]), Mul(vy, nrm[1]))
      p == Mul(Sub(Gamma, One),
               Sub(q[3], Mul(Mul(Half, rho), Add(Mul(vx, vx), Mul(vy, vy)))))
  IN  Vec4(Mul(rho, vn),
           Add(Mul(Mul(rho, vn), vx), Mul(p, nrm[0])),
           Add(Mul(Mul(rho, vn), vy), Mul(p, nrm[1])),
           Mul(vn, Add(q[3], p)))

\* the left and right characteristic speeds that bound eigenvalue k:
\* vn for l[0] and l[1], vn + c for l[2], vn - c for l[3]
CharSpeed(q, nrm, k) ==
  LET s == Roe_side(q, nrm)
  IN  IF k \in {0, 1} THEN s.vn ELSE IF k = 2 THEN Add(s.vn, s.c) ELSE Sub(s.vn, s.c)

\* the epsilon of eigenvalue k: max(0, l - left speed, right speed - l)
EpsOf(k) ==
  LET lk == Roe_locals(ul, ur, n).l0[k]
  IN  MaxOf(MaxOf(Zero, Sub(lk, CharSpeed(ul, n, k))), Sub(CharSpeed(ur, n, k), lk))

ValidArgs == Valid(ul) /\ Valid(ur)

Returned(s) == scheme = s /\ outcome = "returned"

(***************************************************************************)
(* Properties of get_flux                                                  *)
(***************************************************************************)
\* C1: consistency.  For every valid state U and unit normal n,
\* get_flux(U, U, n) returns the physical flux of U projected on n in all
\* four components, for Van Leer and for Roe.
Consistency ==
  (outcome = "returned" /\ ul = ur /\ ValidArgs) => flux = PhysFlux(ul, n)

\* C3: supersonic reduction of Van Leer.  Mn_L >= 1 gives fiplus the full
\* flux of the left state and Mn_L <= -1 gives fiplus zero; Mn_R <= -1 gives
\* fjminus the full flux of the right state and Mn_R >= 1 gives fjminus zero.
SupersonicReduction ==
  (Returned("VanLeer") /\ ValidArgs) =>
    /\ Le(One, VL_Mn(ul, n)) => fiplus = PhysFlux(ul, n)
    /\ Le(VL_Mn(ul, n), MinusOne) => fiplus = Zeros
    /\ Le(VL_Mn(ur, n), MinusOne) => fjminus = PhysFlux(ur, n)
    /\ Le(One, VL_Mn(ur, n)) => fjminus = Zeros

\* a Van Leer call has returned whose left normal Mach number is exactly 1
SonicCallReturned ==
  /\ Returned("VanLeer") /\ ValidArgs
  /\ VL_Mn(ul, n) = One

\* C4: invalid-state rejection.  A call with density <= 0 or pressure <= 0
\* on either side ends in a DomainError and returns no flux.
InvalidStateRejected ==
  (outcome # "pending" /\ ~ValidArgs) => outcome = "DomainError"

\* C5: entropy-fix floor.  After the Harten-Hyman fix each eigenvalue has
\* magnitude at least the epsilon of its group.
EntropyFixFloor ==
  (Returned("Roe") /\ ValidArgs) => \A k \in 0..3 : Le(EpsOf(k), Fabs(l[k]))

\* a Roe call has returned whose averaged normal velocity was below its
\* epsilon, between left and right speeds of opposite sign
TransonicFixed ==
  /\ Returned("Roe") /\ ValidArgs
  /\ Lt(CharSpeed(ul, n, 0), Zero) /\ Lt(Zero, CharSpeed(ur, n, 0))
  /\ Lt(Fabs(Roe_locals(ul, ur, n).l0[0]), EpsOf(0))

\* C9: Roe flux formula.  Every component i of the flux is
\* 0.5*(F_left[i] + F_right[i] - sum_k |l_k| dw_k r[i][k]).
RoeFormula ==
  (Returned("Roe") /\ ValidArgs) =>
    \A i \in 0..3 :
      flux[i] = Mul(Half,
                    Sub(Add(PhysFlux(ul, n)[i], PhysFlux(ur, n)[i]),
                        Roe_sum(l, Roe_locals(ul, ur, n).dw, Roe_locals(ul, ur, n).r, i)))

\* C10: the entropy fix changes only the eigenvalues below their epsilon.
\* Each epsilon is >= 0; an eigenvalue with |l| >= eps is unchanged; one
\* with |l| < eps becomes eps; l[0] and l[1] stay equal.
EntropyFixFrame ==
  (Returned("Roe") /\ ValidArgs) =>
    /\ \A k \in 0..3 :
         LET lk == Roe_locals(ul, ur, n).l0[k]
         IN  /\ Le(Zero, EpsOf(k))
             /\ Le(EpsOf(k), Fabs(lk)) => l[k] = lk
             /\ Lt(Fabs(lk), EpsOf(k)) => l[k] = EpsOf(k)
    /\ l[0] = l[1]

\* a Roe call has returned in which one eigenvalue was raised to its epsilon
\* and another was left as it was
FixedAndUnfixed ==
  /\ Returned("Roe") /\ ValidArgs
  /\ \E k \in 0..3 : Lt(Fabs(Roe_locals(ul, ur, n).l0[k]), EpsOf(k))
  /\ \E k \in 0..3 : Lt(EpsOf(k), Fabs(Roe_locals(ul, ur, n).l0[k]))

\* C1 for the Van Leer scheme alone
ConsistencyVanLeer ==
  (Returned("VanLeer") /\ ul = ur /\ ValidArgs) => flux = PhysFlux(ul, n)

\* C1 for the mass and x-momentum components of the Roe scheme alone
ConsistencyRoeMassXMom ==
  (Returned("Roe") /\ ul = ur /\ ValidArgs) =>
    \A i \in 0..1 : flux[i] = PhysFlux(ul, n)[i]

\* C7: flux purity across calls.  On one flux object the same arguments
\* give the same flux whatever calls were made in between.
FluxPurity ==
  (first # None /\ outcome = "returned"
     /\ ul = first.ul /\ ur = first.ur /\ n = first.n) => flux = first.flux

\* C7 for the Van Leer scheme alone
FluxPurityVanLeer == scheme = "VanLeer" => FluxPurity

(***************************************************************************)
(* Properties of compute_boundary_state                                    *)
(***************************************************************************)
NormalVel(q, nrm) == Div(Add(Mul(q[1], nrm[0]), Mul(q[2], nrm[1])), q[0])

TangentVel(q, nrm) == Div(Sub(Mul(q[1], nrm[1]), Mul(q[2], nrm[0])), q[0])

\* C8: boundary reflection.  The ghost state of a solid-wall face has the
\* density, the total energy and the tangential velocity of the interior
\* state and the negated normal velocity; a marker that is neither solid
\* wall nor inflow/outflow yields a configuration error and no state.
BoundaryReflection ==
  bc # None /\ bc.status # "pending" =>
    /\ bc.marker = solid_wall_id =>
         /\ bc.status = "ok"
         /\ bc.bs[0] = bc.ins[0]
         /\ bc.bs[3] = bc.ins[3]
         /\ TangentVel(bc.bs, bc.nrm) = TangentVel(bc.ins, bc.nrm)
         /\ NormalVel(bc.bs, bc.nrm) = Neg(NormalVel(bc.ins, bc.nrm))
    /\ bc.marker \notin {solid_wall_id, inflow_outflow_id} =>
         bc.status = "ConfigurationError" /\ bc.bs = None

\* a solid-wall face has been resolved from an interior state that moves
\* both along and across the wall
WallResolved ==
  /\ bc # None /\ bc.status = "ok" /\ bc.marker = solid_wall_id
  /\ NormalVel(bc.ins, bc.nrm) # Zero
  /\ TangentVel(bc.ins, bc.nrm) # Zero

(***************************************************************************)
(* Properties of compute_residual                                          *)
(***************************************************************************)
RECURSIVE SumOver(_, _)
\* the sum of the 4-vectors v[x], x in S
SumOver(S, v) ==
  IF S = {} THEN Zeros
  ELSE LET x == CHOOSE y \in S : TRUE
       IN  VAdd(v[x], SumOver(S \ {x}, v))

\* C2: conservation.  After a sweep every interior face has added its
\* area-scaled flux to its owner and subtracted it from its neighbour, so the
\* residuals of all cells sum to the boundary-face contributions alone,
\* in whatever order the faces were visited.
Conservation ==
  status = "done" =>
    /\ \A c \in Cells :
         residual[c] = VSub(SumOver({f \in Faces : Owner(f) = c}, contrib),
                            SumOver({f \in IFaces : Neighbor(f) = c}, contrib))
    /\ SumOver(Cells, residual) = SumOver(BFaces, contrib)

\* a sweep has ended in which the interior face and a boundary face both
\* carried a flux
SweepDone ==
  /\ status = "done"
  /\ \E f \in IFaces : contrib[f] # Zeros
  /\ \E f \in BFaces : contrib[f] # Zeros

\* C6: no leakage between sweeps.  Two consecutive calls of compute_residual
\* on the same unchanged states give the same residual and time-step sums.
NoLeakage ==
  (status = "done" /\ prev # None) =>
    residual = prev.residual /\ integ = prev.integ

\* C6 with the Van Leer scheme configured
NoLeakageVanLeer == scheme = "VanLeer" => NoLeakage

====
